---- MODULE Spec2Model ----
(***************************************************************************)
(* Reliability primitives of patterns/security_utils.py: RateLimiter,      *)
(* RetryHandler and CircuitBreaker, and the composition the pattern        *)
(* scripts use, circuit_breaker.call(retry_handler.retry_with_backoff, op).*)
(*                                                                         *)
(* Time is an integer clock `now` (time.time()), advanced by Tick.  A      *)
(* time.sleep(w) started at time t returns once now >= t + w.              *)
(***************************************************************************)
EXTENDS Integers, Sequences, FiniteSets, TLC

\* ------------------------------------------------------------------ bounds
MaxTime == 10         \* the clock runs over 0..MaxTime
MaxThreshold == 3     \* failure_threshold is drawn from 1..MaxThreshold
MaxRecovery == 1      \* recovery_timeout is drawn from 1..MaxRecovery
MaxRetries == 3       \* max_retries is drawn from -1..MaxRetries
MaxBackoff == 1       \* backoff is drawn from 1..MaxBackoff
MaxInterval == 2      \* min_interval is drawn from 0..MaxInterval
NumThreads == 2       \* concurrent callers sharing one object
MaxCalls == 3         \* calls the concurrent callers start, in all
MaxClock == 3         \* the clock of the concurrent callers runs over 0..MaxClock
MaxSeconds == 2       \* the timeout is drawn from 1..MaxSeconds
MaxReqTime == 4       \* clock values while requests are followed: 0..MaxReqTime
MaxCleanups == 2      \* completed cleanup() runs counted: 0, 1, ..., this or more
MaxHandles == 3       \* handles registered with one ResourceManager

Threads == 1..NumThreads

\* last_failure_time = None
None == -1

VARIABLES
    now,                 \* time.time()
    \* CircuitBreaker fields
    failure_threshold, recovery_timeout, failure_count, last_failure_time, state,
    \* RetryHandler fields and the locals of retry_with_backoff
    max_retries, backoff, attempt, last_exception, wake,
    \* position of the caller: "idle", "loop" (about to invoke func in the
    \* retry loop), "sleep" (inside time.sleep of the retry loop)
    pc,
    \* observation of the current (or last completed) CircuitBreaker.call
    call,
    \* observation of the current (or last) retry_with_backoff run: the
    \* sequence of invocations of func and of sleeps, in program order
    trace,
    \* number of completed call()s since construction when each of them failed
    \* (func raised an Exception), -1 otherwise; and the invocations of the
    \* operation made in them
    failRun, rawAttempts,
    \* what the most recent invocation of the operation returned or raised
    lastOp,
    \* RateLimiter fields and the locals of wait_if_needed
    min_interval, last_request_time, current_time, rl_pc, rl_wake,
    \* the start time recorded before last_request_time (None before the
    \* second wait_if_needed), and whether any start time was recorded
    prev_request_time, rl_recorded,
    \* concurrent callers of wait_if_needed, per thread: position, the local
    \* current_time, the time at which time.sleep returns
    w_pc, w_cur, w_wake,
    \* concurrent callers of CircuitBreaker.call, per thread: position, and the
    \* value of self.failure_count loaded by `self.failure_count += 1`
    c_pc, c_loaded,
    \* calls started by the concurrent callers, failing calls completed, and
    \* whether every call started so far is one whose func raises
    c_calls, c_failed, c_allFail,
    \* timeout_context: the argument, the pending alarm of the process (None
    \* when there is none), the installed SIGALRM handler, the local
    \* old_handler, the position, and the observation of the last scope
    seconds, alarm_at, sig_handler, old_handler, tc_pc, scope,
    \* ResourceManager: self.resources, the position of the with statement
    \* and of the loop of cleanup(), the number of disposals of each handle,
    \* and the observation of the last scope
    resources, rm_pc, rm_i, disposed, rm_scope,
    \* a timeout_context nested in the body of the first: its argument, its
    \* local old_handler, its position and the observation of its last scope
    in_seconds, in_old_handler, in_pc, in_scope,
    \* invoke_model: the position of one request and the log of what its
    \* layers did, in order
    req_pc, req_log

cbVars == <<failure_threshold, recovery_timeout, failure_count, last_failure_time, state>>
rhVars == <<max_retries, backoff, attempt, last_exception, wake>>
obsVars == <<call, trace, failRun, rawAttempts, lastOp>>
rlVars == <<min_interval, last_request_time, current_time, rl_pc, rl_wake,
            prev_request_time, rl_recorded>>
rlcVars == <<w_pc, w_cur, w_wake>>
cbcVars == <<c_pc, c_loaded, c_calls, c_failed, c_allFail>>
tcVars == <<seconds, alarm_at, sig_handler, old_handler, tc_pc, scope>>
rmVars == <<resources, rm_pc, rm_i, disposed, rm_scope>>
tcnVars == <<in_seconds, in_old_handler, in_pc, in_scope>>
reqVars == <<req_pc, req_log>>
newVars == <<tcnVars, reqVars>>
extVars == <<rlcVars, cbcVars, tcVars, rmVars, newVars>>
vars == <<now, cbVars, rhVars, pc, obsVars, rlVars, extVars>>

\* ------------------------------------------------------- values and errors
\* What one invocation of the wrapped operation can do: return, raise an
\* Exception (any subclass; TimeoutError is what timeout_context raises), or
\* raise a BaseException that is no Exception.
OpErrors == {"Exception", "TimeoutError"}
OpAborts == {"KeyboardInterrupt"}
OpOutcomes == {"value"} \cup OpErrors \cup OpAborts

\* A value or an exception, with the invocation (0-based) that produced it;
\* at = -1 when no invocation of the operation produced it.
Obj(type, at) == [type |-> type, at |-> at]
NoException == Obj("None", -1)
BreakerOpenError == Obj("Exception: Circuit breaker is OPEN", -1)
\* `raise None` raises TypeError (exceptions must derive from BaseException)
RaiseNoneError == Obj("TypeError", -1)

IsException(x) == x.type \in OpErrors \cup {"TypeError"}

\* The class of an exception object, which is what an except clause or an
\* isinstance test of the caller sees: Exception("Circuit breaker is OPEN")
\* is an instance of Exception itself.
ClassOf(x) == IF x = BreakerOpenError THEN "Exception" ELSE x.type

Pow2(k) == 2 ^ k

\* --------------------------------------------------------- CircuitBreaker
\* (variant: the comparison admits a wait of exactly recovery_timeout)
RecoveryElapsedInclusive(t, lft, rt) == t - lft >= rt
\* time.time() - self.last_failure_time > self.recovery_timeout
RecoveryElapsed(t, lft, rt) == t - lft > rt

\* (variant: an OPEN breaker rejects whatever time has passed)
RejectsWhileOpen(st, t, lft, rt) == st = "OPEN"
\* call() raises "Circuit breaker is OPEN" before the try block
Rejects(st, t, lft, rt) == st = "OPEN" /\ ~RecoveryElapsed(t, lft, rt)

\* (variant: an OPEN breaker past its timeout is closed at once)
StateOnEntryCloses(st, t, lft, rt) ==
    IF st = "OPEN" /\ RecoveryElapsed(t, lft, rt) THEN "CLOSED" ELSE st
\* self.state when the try block is entered
StateOnEntry(st, t, lft, rt) ==
    IF st = "OPEN" /\ RecoveryElapsed(t, lft, rt) THEN "HALF_OPEN" ELSE st

\* (variant: a successful probe closes the breaker but keeps the count)
CountOnSuccessKept(st, fc) == fc
\* self.state and self.failure_count after func returned
StateOnSuccess(st) == IF st = "HALF_OPEN" THEN "CLOSED" ELSE st
CountOnSuccess(st, fc) == IF st = "HALF_OPEN" THEN 0 ELSE fc

\* (variants: the threshold compared with > ; the threshold compared one
\* failure early; only the first failure's time recorded)
StateOnFailureLate(st, fc, th) == IF fc > th THEN "OPEN" ELSE st
StateOnFailureEarly(st, fc, th) == IF fc + 1 >= th THEN "OPEN" ELSE st
TimeOnFailureFirst(t, lft) == IF lft = None THEN t ELSE lft
\* (variants: the threshold never compared; the time of a failure not
\* recorded)
StateOnFailureNever(st, fc, th) == st
TimeOnFailureUnset(t, lft) == lft
\* self.failure_count, self.last_failure_time and self.state after func
\* raised an Exception at time t; fc is the count already incremented
CountOnFailure(fc) == fc + 1
TimeOnFailure(t, lft) == t
StateOnFailure(st, fc, th) == IF fc >= th THEN "OPEN" ELSE st
\* (variant: the result of func is not passed on)
ResultDropped(v) == NoException
\* return result; raise e
Result(v) == v
Reraised(e) == e

\* ----------------------------------------------------------- RetryHandler
\* (variants: linear instead of exponential backoff; the first exception
\* kept instead of the last; the value of func dropped)
BackoffLinear(b, k) == b * (k + 1)
FirstException(prev, e) == IF prev = NoException THEN e ELSE prev
ReturnNothing(v) == NoException
\* (variant: a bare except, which catches every BaseException)
RetriedAll(kind) == TRUE
\* (variant: TimeoutError handled as if it were no Exception)
RetriedNoTimeout(kind) == kind = "Exception"
\* except Exception as e: what the handler of an attempt catches
Retried(kind) == kind \in OpErrors
\* how an attempt that raised kind is recorded
HowRaised(kind) == IF kind \in OpAborts THEN "abort" ELSE "raise"
\* for attempt in range(self.max_retries + 1)
InRange(k, m) == k < m + 1
\* if attempt < self.max_retries
MoreRetries(k, m) == k < m
\* wait_time = self.backoff * (2 ** attempt)
BackoffWait(b, k) == b * Pow2(k)
\* last_exception = e
LastException(prev, e) == e
\* return func(*args, **kwargs): what retry_with_backoff returns when the
\* invocation returned v
ReturnOf(v) == v
\* raise last_exception: what retry_with_backoff raises after the loop
Raised(last) == IF last = NoException THEN RaiseNoneError ELSE last

\* An invocation of func (the k-th, 0-based) and how it ended ("return",
\* "raise" for an Exception, "abort" for another BaseException); a
\* time.sleep(w)
Invoke(k, how) == [ev |-> "invoke", n |-> k, how |-> how]
Sleep(w) == [ev |-> "sleep", n |-> w, how |-> "return"]
\* an interrupt delivered while time.sleep of attempt k is in progress
Interrupt(k) == [ev |-> "interrupt", n |-> k, how |-> "abort"]
Invocations(tr) == Cardinality({i \in DOMAIN tr : tr[i].ev = "invoke"})
Sleeps(tr) == Cardinality({i \in DOMAIN tr : tr[i].ev = "sleep"})

\* ------------------------------------------------------------ observation
NoCall ==
    [preState |-> "CLOSED", preCount |-> 0, preLft |-> None, preRun |-> 0,
     t0 |-> 0, funcCalls |-> 0, funcRes |-> NoException, out |-> "none",
     res |-> NoException, tEnd |-> 0]

\* func has ended with funcRes, and call() with outcome out ("return",
\* "raise", "reject", "abort") and result or exception res
Finish(funcRes, out, res) ==
    /\ call' = [call EXCEPT !.funcRes = funcRes, !.out = out, !.res = res,
                            !.tEnd = now]
    /\ failRun' = IF failRun \in 0..(failure_threshold - 1) /\ out = "raise"
                  THEN failRun + 1 ELSE -1
    /\ rawAttempts' = IF failRun' >= 0
                      THEN rawAttempts + Invocations(trace') ELSE 0
    /\ pc' = "idle"

\* ------------------------------------------------------------------ clock
Tick ==
    /\ now < MaxTime
    /\ now' = now + 1
    /\ UNCHANGED <<cbVars, rhVars, pc, obsVars, rlVars, extVars>>

\* ------------------------------------------ CircuitBreaker.call, the entry
Entered(funcCalls) ==
    [preState |-> state, preCount |-> failure_count, preLft |-> last_failure_time,
     preRun |-> failRun, t0 |-> now, funcCalls |-> funcCalls,
     funcRes |-> NoException, out |-> "running", res |-> NoException,
     tEnd |-> now]

\* state OPEN within the recovery timeout: raise, func is not invoked
CallReject ==
    /\ pc = "idle"
    /\ Rejects(state, now, last_failure_time, recovery_timeout)
    /\ call' = [Entered(0) EXCEPT !.out = "reject", !.res = BreakerOpenError]
    /\ failRun' = -1
    /\ rawAttempts' = 0
    /\ trace' = <<>>
    /\ UNCHANGED <<now, cbVars, rhVars, pc, lastOp, rlVars, extVars>>

\* otherwise func = retry_with_backoff is invoked: its locals are initialised
CallAdmit ==
    /\ pc = "idle"
    /\ ~Rejects(state, now, last_failure_time, recovery_timeout)
    /\ state' = StateOnEntry(state, now, last_failure_time, recovery_timeout)
    /\ call' = Entered(1)
    /\ trace' = <<>>
    /\ attempt' = 0
    /\ last_exception' = NoException
    /\ pc' = "loop"
    /\ UNCHANGED <<now, failure_threshold, recovery_timeout, failure_count,
                   last_failure_time, max_retries, backoff, wake, failRun,
                   rawAttempts, lastOp, rlVars, extVars>>

\* ------------------------------- the except and success paths of call()
\* func returned v: return result
CallSucceeds(v) ==
    /\ state' = StateOnSuccess(state)
    /\ failure_count' = CountOnSuccess(state, failure_count)
    /\ Finish(v, "return", Result(v))
    /\ UNCHANGED <<failure_threshold, recovery_timeout, last_failure_time>>

\* func raised the Exception e: raise e
CallFails(e) ==
    /\ failure_count' = CountOnFailure(failure_count)
    /\ last_failure_time' = TimeOnFailure(now, last_failure_time)
    /\ state' = StateOnFailure(state, failure_count', failure_threshold)
    /\ Finish(e, "raise", Reraised(e))
    /\ UNCHANGED <<failure_threshold, recovery_timeout>>

\* a BaseException that is no Exception passes through `except Exception`
CallAborts(e) ==
    /\ Finish(e, "abort", e)
    /\ UNCHANGED cbVars

\* --------------------------------------------------- retry_with_backoff
\* range(max_retries + 1) is empty: the loop body never runs, raise None
RetryEmpty ==
    /\ pc = "loop"
    /\ ~InRange(attempt, max_retries)
    /\ trace' = trace
    /\ CallFails(Raised(last_exception))
    /\ UNCHANGED <<now, rhVars, lastOp, rlVars, extVars>>

\* return func(*args, **kwargs)
AttemptReturns ==
    /\ pc = "loop"
    /\ InRange(attempt, max_retries)
    /\ trace' = Append(trace, Invoke(attempt, "return"))
    /\ lastOp' = Obj("value", attempt)
    /\ CallSucceeds(ReturnOf(lastOp'))
    /\ UNCHANGED <<now, rhVars, rlVars, extVars>>

\* except Exception, attempt < max_retries: time.sleep(wait_time)
AttemptRaisesRetry ==
    /\ pc = "loop"
    /\ InRange(attempt, max_retries)
    /\ MoreRetries(attempt, max_retries)
    /\ \E kind \in OpErrors \cup OpAborts :
        /\ Retried(kind)
        /\ lastOp' = Obj(kind, attempt)
        /\ last_exception' = LastException(last_exception, lastOp')
        /\ trace' = trace \o <<Invoke(attempt, HowRaised(kind)),
                               Sleep(BackoffWait(backoff, attempt))>>
    /\ wake' = now + BackoffWait(backoff, attempt)
    /\ pc' = "sleep"
    /\ UNCHANGED <<now, cbVars, max_retries, backoff, attempt, call, failRun,
                   rawAttempts, rlVars, extVars>>

\* time.sleep returns, the loop goes to the next attempt
SleepReturns ==
    /\ pc = "sleep"
    /\ now >= wake
    /\ attempt' = attempt + 1
    /\ pc' = "loop"
    /\ UNCHANGED <<now, cbVars, max_retries, backoff, last_exception, wake,
                   obsVars, rlVars, extVars>>

\* except Exception, no retry left: break, raise last_exception
AttemptRaisesLast ==
    /\ pc = "loop"
    /\ InRange(attempt, max_retries)
    /\ ~MoreRetries(attempt, max_retries)
    /\ \E kind \in OpErrors \cup OpAborts :
        /\ Retried(kind)
        /\ trace' = Append(trace, Invoke(attempt, HowRaised(kind)))
        /\ lastOp' = Obj(kind, attempt)
        /\ last_exception' = LastException(last_exception, lastOp')
        /\ CallFails(Raised(last_exception'))
    /\ UNCHANGED <<now, max_retries, backoff, attempt, wake, rlVars, extVars>>

\* func raises a BaseException that is no Exception
AttemptAborts ==
    /\ pc = "loop"
    /\ InRange(attempt, max_retries)
    /\ \E kind \in OpErrors \cup OpAborts :
        /\ ~Retried(kind)
        /\ trace' = Append(trace, Invoke(attempt, HowRaised(kind)))
        /\ lastOp' = Obj(kind, attempt)
        /\ CallAborts(lastOp')
    /\ UNCHANGED <<now, rhVars, rlVars, extVars>>

\* an interrupt arrives during time.sleep(wait_time): it is raised inside
\* the except block and leaves retry_with_backoff and call()
SleepAborts ==
    /\ pc = "sleep"
    /\ trace' = Append(trace, Interrupt(attempt))
    /\ \E kind \in OpAborts : CallAborts(Obj(kind, -1))
    /\ UNCHANGED <<now, rhVars, lastOp, rlVars, extVars>>

\* ------------------------------------------------------------ RateLimiter
\* (variant: the sleep lasts the time already elapsed, not the remainder)
WaitTimeElapsed(since, interval) == since
\* time_since_last = current_time - self.last_request_time
TimeSinceLast(cur, last) == cur - last
\* if time_since_last < self.min_interval
NeedsWait(since, interval) == since < interval
\* (variant: the sleep always lasts the whole interval)
WaitTimeFull(since, interval) == interval
\* time.sleep(self.min_interval - time_since_last)
WaitTime(since, interval) == interval - since

\* current_time = time.time()
WaitEnter ==
    /\ rl_pc = "idle"
    /\ current_time' = now
    /\ rl_pc' = "check"
    /\ UNCHANGED <<now, cbVars, rhVars, pc, obsVars, extVars, min_interval,
                   last_request_time, rl_wake, prev_request_time, rl_recorded>>

\* time_since_last < min_interval: time.sleep starts
WaitSleep ==
    /\ rl_pc = "check"
    /\ NeedsWait(TimeSinceLast(current_time, last_request_time), min_interval)
    /\ rl_wake' = now + WaitTime(TimeSinceLast(current_time, last_request_time),
                                 min_interval)
    /\ rl_pc' = "sleep"
    /\ UNCHANGED <<now, cbVars, rhVars, pc, obsVars, extVars, min_interval,
                   last_request_time, current_time, prev_request_time,
                   rl_recorded>>

\* time.sleep returns
WaitWake ==
    /\ rl_pc = "sleep"
    /\ now >= rl_wake
    /\ rl_pc' = "record"
    /\ UNCHANGED <<now, cbVars, rhVars, pc, obsVars, extVars, min_interval,
                   last_request_time, current_time, rl_wake, prev_request_time,
                   rl_recorded>>

\* time_since_last >= min_interval: no sleep
WaitSkip ==
    /\ rl_pc = "check"
    /\ ~NeedsWait(TimeSinceLast(current_time, last_request_time), min_interval)
    /\ rl_pc' = "record"
    /\ UNCHANGED <<now, cbVars, rhVars, pc, obsVars, extVars, min_interval,
                   last_request_time, current_time, rl_wake, prev_request_time,
                   rl_recorded>>

\* self.last_request_time = time.time()
WaitRecord ==
    /\ rl_pc = "record"
    /\ last_request_time' = now
    /\ prev_request_time' = IF rl_recorded THEN last_request_time ELSE None
    /\ rl_recorded' = TRUE
    /\ rl_pc' = "idle"
    /\ UNCHANGED <<now, cbVars, rhVars, pc, obsVars, extVars, min_interval,
                   current_time, rl_wake>>

\* ---------------------------------------------------------- specification
\* No concurrent caller, no timeout scope and no ResourceManager in use
RLCIdle ==
    /\ w_pc = [t \in Threads |-> "idle"]
    /\ w_cur = [t \in Threads |-> 0]
    /\ w_wake = [t \in Threads |-> 0]

CBCIdle ==
    /\ c_pc = [t \in Threads |-> "idle"]
    /\ c_loaded = [t \in Threads |-> 0]
    /\ c_calls = 0
    /\ c_failed = 0
    /\ c_allFail = TRUE

NoScope ==
    [before |-> "SIG_DFL", entered |-> None, out |-> "none", tEnd |-> None]

TCIdle ==
    /\ seconds = 1
    /\ alarm_at = None
    /\ sig_handler = "SIG_DFL"
    /\ old_handler = "SIG_DFL"
    /\ tc_pc = "idle"
    /\ scope = NoScope

NoRun ==
    [body |-> "none", out |-> "none", registered |-> 0, failed |-> {},
     cleanups |-> 0]

RMIdle ==
    /\ resources = <<>>
    /\ rm_pc = "idle"
    /\ rm_i = 0
    /\ disposed = [h \in 1..MaxHandles |-> 0]
    /\ rm_scope = NoRun

TCNIdle ==
    /\ in_seconds = 1
    /\ in_old_handler = "SIG_DFL"
    /\ in_pc = "idle"
    /\ in_scope = NoScope

ReqIdle ==
    /\ req_pc = "idle"
    /\ req_log = <<>>

ExtIdle == RLCIdle /\ CBCIdle /\ TCIdle /\ RMIdle /\ TCNIdle /\ ReqIdle

RLIdle ==
    /\ last_request_time = 0
    /\ current_time = 0
    /\ rl_pc = "idle"
    /\ rl_wake = 0
    /\ prev_request_time = None
    /\ rl_recorded = FALSE

\* CircuitBreaker(failure_threshold, recovery_timeout) and
\* RetryHandler(max_retries, backoff), freshly constructed
Init ==
    /\ now = 0
    /\ failure_threshold \in 1..MaxThreshold
    /\ recovery_timeout \in 1..MaxRecovery
    /\ failure_count = 0
    /\ last_failure_time = None
    /\ state = "CLOSED"
    /\ \/ max_retries \in 0..MaxRetries
       \/ max_retries = -1
    /\ backoff \in 1..MaxBackoff
    /\ attempt = 0
    /\ last_exception = NoException
    /\ wake = 0
    /\ pc = "idle"
    /\ call = NoCall
    /\ trace = <<>>
    /\ failRun = 0
    /\ rawAttempts = 0
    /\ lastOp = NoException
    /\ min_interval = 0
    /\ RLIdle
    /\ ExtIdle

Next ==
    \/ Tick
    \/ CallReject
    \/ CallAdmit
    \/ RetryEmpty
    \/ AttemptReturns
    \/ AttemptRaisesRetry
    \/ SleepReturns
    \/ AttemptRaisesLast
    \/ AttemptAborts
    \/ SleepAborts

Spec == Init /\ [][Next]_vars

\* No CircuitBreaker or RetryHandler in use
CBIdle ==
    /\ failure_threshold = 1
    /\ recovery_timeout = 1
    /\ failure_count = 0
    /\ last_failure_time = None
    /\ state = "CLOSED"
    /\ max_retries = 0
    /\ backoff = 1
    /\ attempt = 0
    /\ last_exception = NoException
    /\ wake = 0
    /\ pc = "idle"
    /\ call = NoCall
    /\ trace = <<>>
    /\ failRun = 0
    /\ rawAttempts = 0
    /\ lastOp = NoException

\* RateLimiter(min_interval), freshly constructed, used by one caller
InitRL ==
    /\ now = 0
    /\ CBIdle
    /\ min_interval \in 0..MaxInterval
    /\ RLIdle
    /\ ExtIdle

NextRL ==
    \/ Tick
    \/ WaitEnter
    \/ WaitSleep
    \/ WaitWake
    \/ WaitSkip
    \/ WaitRecord

SpecRL == InitRL /\ [][NextRL]_vars

TypeOK ==
    /\ now \in 0..MaxTime
    /\ state \in {"CLOSED", "OPEN", "HALF_OPEN"}
    /\ failure_count \in Nat
    /\ last_failure_time \in {None} \cup 0..MaxTime
    /\ pc \in {"idle", "loop", "sleep"}
    /\ attempt \in 0..(MaxRetries + 1)

\* ------------------------------------------------------------------ claims
Within == call.t0 - call.preLft <= recovery_timeout
\* every invocation of the run raised an Exception, and no interrupt
\* cut the run short
AllRaised(tr) ==
    \A i \in DOMAIN tr :
        /\ tr[i].ev = "invoke" => tr[i].how = "raise"
        /\ tr[i].ev /= "interrupt"
\* retry_with_backoff has run to its end in the last call()
RunEnded == pc = "idle" /\ call.funcCalls = 1

\* C1: from a fresh breaker, after failure_threshold consecutive call()s
\* whose func raised, the state is OPEN; and the next call(), made within
\* recovery_timeout of the last failure, raises the breaker-open error
\* without invoking func.
C1_OpensAtThreshold ==
    /\ (pc = "idle" /\ failRun = failure_threshold) => state = "OPEN"
    /\ (call.preRun = failure_threshold /\ Within) =>
          /\ call.out = "reject"
          /\ call.res = BreakerOpenError
          /\ call.funcCalls = 0
          /\ trace = <<>>

C1_Witness ==
    /\ failure_threshold = MaxThreshold
    /\ call.preRun = failure_threshold
    /\ call.out = "reject"

\* C2 (as claimed): whenever func returns normally while the breaker is
\* CLOSED, failure_count is 0 after the call.
C2_SuccessResetsCount ==
    (pc = "idle" /\ call.out = "return" /\ call.preState = "CLOSED") =>
        failure_count = 0

\* C3: a call() made while the state is OPEN and no more than
\* recovery_timeout after last_failure_time raises the breaker-open error,
\* never invokes func, and leaves state, failure_count and
\* last_failure_time as they were.
C3_RejectionChangesNothing ==
    (call.out /= "none" /\ call.preState = "OPEN" /\ Within) =>
        /\ call.out = "reject"
        /\ call.res = BreakerOpenError
        /\ call.funcCalls = 0
        /\ trace = <<>>
        /\ state = call.preState
        /\ failure_count = call.preCount
        /\ last_failure_time = call.preLft

C3_Witness ==
    /\ call.out = "reject"
    /\ call.t0 - call.preLft = recovery_timeout
    /\ call.preCount > failure_threshold

\* C4 (as claimed): a call() made on an OPEN breaker at least
\* recovery_timeout after the last failure, a wait of exactly
\* recovery_timeout included, executes func, and if func succeeds the
\* breaker ends CLOSED with failure_count = 0.
C4_AdmitsAtTimeout ==
    (call.out /= "none" /\ call.preState = "OPEN"
        /\ call.t0 - call.preLft >= recovery_timeout) =>
        /\ call.funcCalls = 1
        /\ call.out = "return" => (state = "CLOSED" /\ failure_count = 0)

\* C4 (amended): a call() made on an OPEN breaker strictly more than
\* recovery_timeout after the last failure executes func, and if func
\* succeeds the breaker ends CLOSED with failure_count = 0.
C4_AdmitsAfterTimeout ==
    (call.out /= "none" /\ call.preState = "OPEN"
        /\ call.t0 - call.preLft > recovery_timeout) =>
        /\ call.funcCalls = 1
        /\ call.out = "return" => (state = "CLOSED" /\ failure_count = 0)

C4_Witness ==
    /\ call.preState = "OPEN"
    /\ call.preCount >= failure_threshold
    /\ call.out = "return"
    /\ state = "CLOSED"
    /\ failure_count = 0

\* C5: when the probe admitted from OPEN fails (func raises an Exception),
\* the breaker ends OPEN, last_failure_time is the time of that failure, and
\* the exception func raised is the one call() raises.
C5_FailedProbeReopens ==
    (pc = "idle" /\ call.preState = "OPEN" /\ call.funcCalls = 1
        /\ call.out = "raise") =>
        /\ state = "OPEN"
        /\ last_failure_time = call.tEnd
        /\ IsException(call.funcRes)
        /\ call.res = call.funcRes

C5_Witness ==
    /\ pc = "idle"
    /\ call.preState = "OPEN"
    /\ call.out = "raise"
    /\ call.tEnd > call.t0
    /\ last_failure_time > call.preLft + recovery_timeout

\* C6: with call() wrapping retry_with_backoff and an operation that always
\* fails, each exhausted retry run (max_retries + 1 invocations) adds exactly
\* 1 to failure_count, and the breaker is OPEN exactly from the
\* failure_threshold-th exhausted run on (max_retries = 2, failure_threshold
\* = 3: CLOSED after 2 runs and 6 invocations, OPEN after 3 runs and 9).
C6_OneFailurePerExhaustedRun ==
    (pc = "idle" /\ failRun >= 0 /\ max_retries >= 0) =>
        /\ failure_count = failRun
        /\ rawAttempts = failRun * (max_retries + 1)
        /\ state = (IF failRun >= failure_threshold THEN "OPEN" ELSE "CLOSED")

C6_Witness ==
    /\ pc = "idle"
    /\ max_retries = 2
    /\ failure_threshold = 3
    /\ failRun = 3
    /\ rawAttempts = 9
    /\ state = "OPEN"

\* C7: when every invocation raises and max_retries = M >= 0,
\* retry_with_backoff invokes func M + 1 times and sleeps M times, the k-th
\* sleep lasting backoff * 2^k and lying between invocations k and k + 1,
\* with no sleep after the last failure.
Schedule(m, b) ==
    [i \in 1..(2 * m + 1) |->
        IF i % 2 = 1 THEN Invoke((i - 1) \div 2, "raise")
                     ELSE Sleep(b * Pow2((i \div 2) - 1))]

C7_BackoffSchedule ==
    (RunEnded /\ max_retries >= 0 /\ AllRaised(trace)) =>
        /\ trace = Schedule(max_retries, backoff)
        /\ Invocations(trace) = max_retries + 1
        /\ Sleeps(trace) = max_retries

C7_Witness ==
    /\ RunEnded
    /\ max_retries = 3
    /\ backoff = 1
    /\ trace = <<Invoke(0, "raise"), Sleep(1), Invoke(1, "raise"), Sleep(2),
                 Invoke(2, "raise"), Sleep(4), Invoke(3, "raise")>>

\* C8: when every invocation raises, retry_with_backoff raises exactly the
\* exception of the last, (max_retries + 1)-th invocation, of the kind that
\* invocation raised (a TimeoutError stays a TimeoutError).
C8_RaisesLastFailure ==
    (RunEnded /\ max_retries >= 0 /\ AllRaised(trace)) =>
        /\ call.funcRes = lastOp
        /\ call.funcRes.at = max_retries
        /\ call.funcRes.type \in OpErrors

C8_Witness ==
    /\ RunEnded
    /\ max_retries >= 2
    /\ AllRaised(trace)
    /\ call.funcRes = Obj("TimeoutError", max_retries)

\* C9: retry_with_backoff invokes func at most max_retries + 1 times, and an
\* invocation that returns normally is the last event of the run: its value
\* is what retry_with_backoff returns, with no invocation or sleep after it.
C9_StopsAtFirstReturn ==
    /\ Invocations(trace) <= max_retries + 1
    /\ \A i \in DOMAIN trace :
          (trace[i].ev = "invoke" /\ trace[i].how = "return") =>
              /\ i = Len(trace)
              /\ pc = "idle"
              /\ call.funcRes = Obj("value", trace[i].n)
              /\ call.out = "return"

C9_Witness ==
    /\ pc = "idle"
    /\ call.out = "return"
    /\ call.funcRes = Obj("value", 2)
    /\ Sleeps(trace) = 2
    /\ max_retries > 2

\* C10: in sequential use under a non-decreasing clock, every two
\* consecutive recorded start times (values of last_request_time) are at
\* least min_interval apart.
C10_StartsSpaced ==
    prev_request_time /= None =>
        last_request_time - prev_request_time >= min_interval

C10_Witness ==
    /\ prev_request_time /= None
    /\ min_interval = MaxInterval
    /\ last_request_time - prev_request_time = min_interval
    /\ current_time < last_request_time


\* C17 (as claimed): the error call() raises when it rejects a call is of a
\* kind no failure of func can have.
C17_RejectionKindDistinct ==
    (call.out = "raise" /\ call.funcCalls = 1) =>
        ClassOf(call.res) /= ClassOf(BreakerOpenError)

\* C18: call() returns normally only if its one invocation of func returned
\* normally, and returns that value; retry_with_backoff returns normally
\* only if its last invocation of the operation returned normally; and a
\* failure not followed by a successful retry is raised to the caller.
LastEvent == trace[Len(trace)]

C18_NoFailureBecomesSuccess ==
    /\ call.out = "return" =>
          /\ call.funcCalls = 1
          /\ call.funcRes.type = "value"
          /\ call.res = call.funcRes
          /\ trace /= <<>>
          /\ LastEvent = Invoke(call.funcRes.at, "return")
          /\ lastOp = call.funcRes
    /\ (RunEnded /\ trace /= <<>> /\ LastEvent.ev = "interrupt") =>
          call.out = "abort"
    /\ (RunEnded /\ trace /= <<>> /\ LastEvent.ev = "invoke"
             /\ LastEvent.how /= "return") =>
          /\ call.out \in {"raise", "abort"}
          /\ call.res = lastOp
          /\ call.res.type \in OpErrors \cup OpAborts
    /\ (RunEnded /\ trace = <<>>) => call.out = "raise"

C18_Witness ==
    /\ call.out = "return"
    /\ call.res = Obj("value", 1)
    /\ call.preState = "OPEN"

\* C19: each call() invokes func at most once: exactly once when the call is
\* admitted (state CLOSED or HALF_OPEN, or OPEN past the recovery timeout),
\* not at all when it is rejected.
C19_OneInvocationPerCall ==
    call.out /= "none" =>
        /\ call.funcCalls \in {0, 1}
        /\ call.funcCalls = 0 <=> (call.preState = "OPEN" /\ Within)
        /\ call.funcCalls = 0 <=> call.out = "reject"

C19_Witness ==
    /\ call.preState = "HALF_OPEN"
    /\ call.funcCalls = 1
    /\ call.out = "raise"

\* C20: in sequential use the state is one of CLOSED, OPEN, HALF_OPEN and
\* changes only along CLOSED -> OPEN, OPEN -> HALF_OPEN, HALF_OPEN -> CLOSED
\* and HALF_OPEN -> OPEN.
Edges ==
    {<<"CLOSED", "OPEN">>, <<"OPEN", "HALF_OPEN">>, <<"HALF_OPEN", "CLOSED">>,
     <<"HALF_OPEN", "OPEN">>}

C20_StateEdges ==
    [][/\ state' \in {"CLOSED", "OPEN", "HALF_OPEN"}
       /\ state' /= state => <<state, state'>> \in Edges]_vars

C20_Witness ==
    /\ state = "OPEN"
    /\ call.preState = "OPEN"
    /\ call.out = "raise"
    /\ call.preCount > failure_threshold


\* --------------------------------------- RateLimiter, concurrent callers
\* Several threads share one RateLimiter and call wait_if_needed(), which
\* takes no lock: the steps of the threads interleave statement by statement.
TickC ==
    /\ now < MaxClock
    /\ now' = now + 1
    /\ UNCHANGED <<cbVars, rhVars, pc, obsVars, rlVars, extVars>>

\* current_time = time.time()
CWaitEnter(t) ==
    /\ w_pc[t] = "idle"
    /\ w_cur' = [w_cur EXCEPT ![t] = now]
    /\ w_pc' = [w_pc EXCEPT ![t] = "check"]
    /\ UNCHANGED <<now, cbVars, rhVars, pc, obsVars, rlVars, w_wake, cbcVars,
                   tcVars, rmVars, newVars>>

\* time_since_last < min_interval: time.sleep starts
CWaitSleep(t) ==
    /\ w_pc[t] = "check"
    /\ NeedsWait(TimeSinceLast(w_cur[t], last_request_time), min_interval)
    /\ w_wake' = [w_wake EXCEPT ![t] =
          now + WaitTime(TimeSinceLast(w_cur[t], last_request_time), min_interval)]
    /\ w_pc' = [w_pc EXCEPT ![t] = "sleep"]
    /\ UNCHANGED <<now, cbVars, rhVars, pc, obsVars, rlVars, w_cur, cbcVars,
                   tcVars, rmVars, newVars>>

\* time.sleep returns
CWaitWake(t) ==
    /\ w_pc[t] = "sleep"
    /\ now >= w_wake[t]
    /\ w_pc' = [w_pc EXCEPT ![t] = "record"]
    /\ UNCHANGED <<now, cbVars, rhVars, pc, obsVars, rlVars, w_cur, w_wake,
                   cbcVars, tcVars, rmVars, newVars>>

\* time_since_last >= min_interval: no sleep
CWaitSkip(t) ==
    /\ w_pc[t] = "check"
    /\ ~NeedsWait(TimeSinceLast(w_cur[t], last_request_time), min_interval)
    /\ w_pc' = [w_pc EXCEPT ![t] = "record"]
    /\ UNCHANGED <<now, cbVars, rhVars, pc, obsVars, rlVars, w_cur, w_wake,
                   cbcVars, tcVars, rmVars, newVars>>

\* self.last_request_time = time.time()
CWaitRecord(t) ==
    /\ w_pc[t] = "record"
    /\ last_request_time' = now
    /\ prev_request_time' = IF rl_recorded THEN last_request_time ELSE None
    /\ rl_recorded' = TRUE
    /\ w_pc' = [w_pc EXCEPT ![t] = "idle"]
    /\ UNCHANGED <<now, cbVars, rhVars, pc, obsVars, min_interval, current_time,
                   rl_pc, rl_wake, w_cur, w_wake, cbcVars, tcVars, rmVars, newVars>>

InitRLC == InitRL

NextRLC ==
    \/ TickC
    \/ \E t \in Threads : CWaitEnter(t)
    \/ \E t \in Threads : CWaitSleep(t)
    \/ \E t \in Threads : CWaitWake(t)
    \/ \E t \in Threads : CWaitSkip(t)
    \/ \E t \in Threads : CWaitRecord(t)

SpecRLC == InitRLC /\ [][NextRLC]_vars

\* C11 (as claimed): with several threads calling wait_if_needed() on one
\* RateLimiter, no two callers record start times less than min_interval
\* apart, in any interleaving.
C11_ConcurrentStartsSpaced ==
    (rl_recorded /\ prev_request_time /= None) =>
        last_request_time >= prev_request_time + min_interval


\* ------------------------------------ CircuitBreaker, concurrent callers
\* Several threads share one CircuitBreaker and call call(func), which takes
\* no lock.  func is any function: it returns, raises an Exception or raises
\* another BaseException.  `self.failure_count += 1` is a load of the
\* attribute followed by a store of the sum; a thread switch may fall between
\* the two, as between any two statements.
CBCFrame == <<now, rhVars, pc, obsVars, rlVars, rlcVars, tcVars, rmVars, newVars>>

\* lines 206-210, state OPEN within the recovery timeout: raise
CCallReject(t) ==
    /\ c_pc[t] = "idle"
    /\ c_calls < MaxCalls
    /\ Rejects(state, now, last_failure_time, recovery_timeout)
    /\ c_calls' = c_calls + 1
    /\ c_allFail' = FALSE
    /\ UNCHANGED <<cbVars, c_pc, c_loaded, c_failed, CBCFrame>>

\* lines 206-208 and 213: func is invoked
CCallAdmit(t) ==
    /\ c_pc[t] = "idle"
    /\ c_calls < MaxCalls
    /\ ~Rejects(state, now, last_failure_time, recovery_timeout)
    /\ state' = StateOnEntry(state, now, last_failure_time, recovery_timeout)
    /\ c_calls' = c_calls + 1
    /\ c_pc' = [c_pc EXCEPT ![t] = "func"]
    /\ UNCHANGED <<failure_threshold, recovery_timeout, failure_count,
                   last_failure_time, c_loaded, c_failed, c_allFail, CBCFrame>>

\* func returns: line 214 is next
CFuncReturns(t) ==
    /\ c_pc[t] = "func"
    /\ c_pc' = [c_pc EXCEPT ![t] = "returned"]
    /\ c_allFail' = FALSE
    /\ UNCHANGED <<cbVars, c_loaded, c_calls, c_failed, CBCFrame>>

\* lines 214-217
CCallSucceeds(t) ==
    /\ c_pc[t] = "returned"
    /\ state' = StateOnSuccess(state)
    /\ failure_count' = CountOnSuccess(state, failure_count)
    /\ c_pc' = [c_pc EXCEPT ![t] = "idle"]
    /\ UNCHANGED <<failure_threshold, recovery_timeout, last_failure_time,
                   c_loaded, c_calls, c_failed, c_allFail, CBCFrame>>

\* func raises a BaseException that is no Exception: call() ends
CFuncAborts(t) ==
    /\ c_pc[t] = "func"
    /\ c_pc' = [c_pc EXCEPT ![t] = "idle"]
    /\ c_allFail' = FALSE
    /\ UNCHANGED <<cbVars, c_loaded, c_calls, c_failed, CBCFrame>>

\* func raises an Exception; line 219 loads self.failure_count
CFuncRaises(t) ==
    /\ c_pc[t] = "func"
    /\ c_loaded' = [c_loaded EXCEPT ![t] = failure_count]
    /\ c_pc' = [c_pc EXCEPT ![t] = "loaded"]
    /\ UNCHANGED <<cbVars, c_calls, c_failed, c_allFail, CBCFrame>>

\* line 219 stores the sum, line 220 records the time
CCountStore(t) ==
    /\ c_pc[t] = "loaded"
    /\ failure_count' = CountOnFailure(c_loaded[t])
    /\ last_failure_time' = TimeOnFailure(now, last_failure_time)
    /\ c_pc' = [c_pc EXCEPT ![t] = "counted"]
    /\ UNCHANGED <<failure_threshold, recovery_timeout, state, c_loaded,
                   c_calls, c_failed, c_allFail, CBCFrame>>

\* lines 222-225
CCallFails(t) ==
    /\ c_pc[t] = "counted"
    /\ state' = StateOnFailure(state, failure_count, failure_threshold)
    /\ c_failed' = c_failed + 1
    /\ c_pc' = [c_pc EXCEPT ![t] = "idle"]
    /\ UNCHANGED <<failure_threshold, recovery_timeout, failure_count,
                   last_failure_time, c_loaded, c_calls, c_allFail, CBCFrame>>

\* one fresh CircuitBreaker
InitCBC ==
    /\ Init
    /\ max_retries = 0
    /\ backoff = 1

NextCBC ==
    \/ TickC
    \/ \E t \in Threads : CCallReject(t)
    \/ \E t \in Threads : CCallAdmit(t)
    \/ \E t \in Threads : CFuncReturns(t)
    \/ \E t \in Threads : CCallSucceeds(t)
    \/ \E t \in Threads : CFuncAborts(t)
    \/ \E t \in Threads : CFuncRaises(t)
    \/ \E t \in Threads : CCountStore(t)
    \/ \E t \in Threads : CCallFails(t)

SpecCBC == InitCBC /\ [][NextCBC]_vars

\* C12 (as claimed): with several threads calling call() on one fresh
\* breaker, no failure is lost: once k failing calls (and no others) have
\* completed, failure_count = k, and the state is OPEN if k >=
\* failure_threshold.
C12_NoFailureLost ==
    (c_allFail /\ \A t \in Threads : c_pc[t] = "idle") =>
        /\ failure_count = c_failed
        /\ c_failed >= failure_threshold => state = "OPEN"


\* --------------------------------------------------------- timeout_context
\* One scope at a time, in the main thread, as _invoke uses it.  The process
\* has one alarm and one SIGALRM handler.  A due alarm is delivered before
\* the clock moves on; the finally block runs without the clock advancing.
Handlers == {"SIG_DFL", "user_handler"}

\* (variants: the alarm armed one second late; the handler not restored;
\* the alarm left pending)
AlarmAtLate(t, secs) == t + secs + 1
HandlerOnExitKept(old, cur) == cur
AlarmOnExitKept(al) == al
\* signal.alarm(seconds)
AlarmAt(t, secs) == t + secs
\* the alarm al has expired at time t
Due(al, t) == al /= None /\ t >= al
\* finally: signal.alarm(0); signal.signal(signal.SIGALRM, old_handler)
AlarmOnExit(al) == None
HandlerOnExit(old, cur) == old

TCFrame == <<cbVars, rhVars, pc, obsVars, rlVars, rlcVars, cbcVars, rmVars, newVars>>

TickT ==
    /\ now < MaxTime
    /\ ~Due(alarm_at, now)
    /\ now' = now + 1
    /\ UNCHANGED <<tcVars, TCFrame>>

\* old_handler = signal.signal(SIGALRM, timeout_handler); signal.alarm(seconds)
TCEnter ==
    /\ tc_pc = "idle"
    /\ old_handler' = sig_handler
    /\ sig_handler' = "timeout_handler"
    /\ alarm_at' = AlarmAt(now, seconds)
    /\ tc_pc' = "body"
    /\ scope' = [before |-> sig_handler, entered |-> now, out |-> "running",
                 tEnd |-> None]
    /\ UNCHANGED <<now, seconds, TCFrame>>

\* the finally block, after the body ended with out
TCExit(out) ==
    /\ alarm_at' = AlarmOnExit(alarm_at)
    /\ sig_handler' = HandlerOnExit(old_handler, sig_handler)
    /\ tc_pc' = "idle"
    /\ scope' = [scope EXCEPT !.out = out, !.tEnd = now]
    /\ UNCHANGED <<now, seconds, old_handler, TCFrame>>

\* the body completes, no alarm being due
TCBodyReturns ==
    /\ tc_pc = "body"
    /\ ~Due(alarm_at, now)
    /\ TCExit("return")

\* the body raises an exception of its own, no alarm being due
TCBodyRaises ==
    /\ tc_pc = "body"
    /\ ~Due(alarm_at, now)
    /\ TCExit("raise")

\* SIGALRM is delivered while the body runs: timeout_handler raises
\* TimeoutError in it
TCTimeout ==
    /\ tc_pc = "body"
    /\ Due(alarm_at, now)
    /\ sig_handler = "timeout_handler"
    /\ TCExit("TimeoutError")

\* before a call of timeout_context(seconds); any handler may be installed
InitTC ==
    /\ now = 0
    /\ CBIdle
    /\ min_interval = 0
    /\ RLIdle
    /\ RLCIdle
    /\ CBCIdle
    /\ RMIdle
    /\ TCNIdle
    /\ ReqIdle
    /\ seconds \in 1..MaxSeconds
    /\ alarm_at = None
    /\ sig_handler \in Handlers
    /\ old_handler = "SIG_DFL"
    /\ tc_pc = "idle"
    /\ scope = NoScope

NextTC ==
    \/ TickT
    \/ TCEnter
    \/ TCBodyReturns
    \/ TCBodyRaises
    \/ TCTimeout

SpecTC == InitTC /\ [][NextTC]_vars

Deadline == scope.entered + seconds

\* C13: a body still running inside timeout_context(seconds) when the
\* deadline elapses is aborted with TimeoutError; a body that completes
\* before the deadline ends with its own result and no TimeoutError.
C13_TimeoutAtDeadline ==
    /\ tc_pc = "body" => now <= Deadline
    /\ scope.out = "TimeoutError" => scope.tEnd = Deadline
    /\ scope.out \in {"return", "raise"} => scope.tEnd < Deadline

C13_Witness ==
    /\ scope.out = "TimeoutError"
    /\ seconds = MaxSeconds
    /\ scope.entered > 0

\* C14: on every exit from timeout_context (the body returned, raised, or
\* was timed out) no alarm is pending and the SIGALRM handler is the one
\* installed before entry.
C14_ExitRestores ==
    (tc_pc = "idle" /\ scope.out /= "none") =>
        /\ alarm_at = None
        /\ sig_handler = scope.before
        /\ sig_handler /= "timeout_handler"

C14_Witness ==
    /\ tc_pc = "idle"
    /\ scope.out = "raise"
    /\ scope.before = "user_handler"
    /\ now > scope.tEnd + seconds


\* ---------------------------------------------------------------------
\* ResourceManager used as a scope: with manager: body.  Each add_resource
\* registers a new handle, numbered in registration order; a handle offers
\* close(), cleanup() or both.  disposed[h] counts the disposer calls made
\* on handle h.  rm_scope records how the body ended (body), what the
\* caller of the with statement observes (out), how many handles were
\* registered so far, the handles whose disposer raised, and how many runs
\* of cleanup() have completed.  A cleanup() called directly has body and
\* out "call".
HandleKinds == {"close", "cleanup", "both"}
BodyRaises == {"Exception", "KeyboardInterrupt"}
DisposeOutcomes == {"ok", "Exception"}

\* (variants: both disposers of a handle called; a disposal error not
\* caught; the scope swallowing the body's exception)
MethodsCalledAll(kind) ==
    IF kind = "both" THEN {"close", "cleanup"} ELSE {kind}
CaughtNothing(how) == FALSE
ExitOutcomeSwallowed(body) == "return"
\* (variant: the list is not emptied)
ClearedKept(res) == res
\* self.resources.clear()
Cleared(res) == <<>>
\* if hasattr(resource, 'close'): close()  elif hasattr(.., 'cleanup'): cleanup()
MethodsCalled(kind) ==
    IF kind \in {"close", "both"} THEN {"close"}
    ELSE IF kind = "cleanup" THEN {"cleanup"}
    ELSE {}
\* except Exception: pass
Caught(how) == how = "Exception"
\* __exit__ returns None: an exception of the body propagates
ExitOutcome(body) == body

RMFrame ==
    <<now, cbVars, rhVars, pc, obsVars, rlVars, rlcVars, cbcVars, tcVars,
      newVars>>

\* __enter__
RMEnter ==
    /\ rm_pc = "idle"
    /\ rm_pc' = "body"
    /\ rm_scope' = [rm_scope EXCEPT !.body = "none", !.out = "none"]
    /\ UNCHANGED <<resources, rm_i, disposed, RMFrame>>

\* add_resource(resource) in the body
RMAdd(kind) ==
    /\ rm_pc = "body"
    /\ rm_scope.registered < MaxHandles
    /\ resources' = Append(resources,
                           [id |-> rm_scope.registered + 1, kind |-> kind])
    /\ rm_scope' = [rm_scope EXCEPT !.registered = @ + 1]
    /\ UNCHANGED <<rm_pc, rm_i, disposed, RMFrame>>

\* add_resource(resource) outside a scope: no scope has ended since
RMAddOutside(kind) ==
    /\ rm_pc = "idle"
    /\ rm_scope.registered < MaxHandles
    /\ resources' = Append(resources,
                           [id |-> rm_scope.registered + 1, kind |-> kind])
    /\ rm_scope' = [rm_scope EXCEPT !.registered = @ + 1,
                                    !.body = "none", !.out = "none"]
    /\ UNCHANGED <<rm_pc, rm_i, disposed, RMFrame>>

\* cleanup() called directly, outside a scope
RMCleanupCall ==
    /\ rm_pc = "idle"
    /\ rm_pc' = "cleanup"
    /\ rm_i' = 1
    /\ rm_scope' = [rm_scope EXCEPT !.body = "call", !.out = "none"]
    /\ UNCHANGED <<resources, disposed, RMFrame>>

\* the body ends; __exit__ calls cleanup(), which starts its loop
BodyEnds(how) ==
    /\ rm_pc' = "cleanup"
    /\ rm_i' = 1
    /\ rm_scope' = [rm_scope EXCEPT !.body = how]
    /\ UNCHANGED <<resources, disposed, RMFrame>>

RMBodyReturns ==
    /\ rm_pc = "body"
    /\ BodyEnds("return")

RMBodyRaises(e) ==
    /\ rm_pc = "body"
    /\ BodyEnds(e)

\* one iteration of the loop of cleanup()
RMDispose(how) ==
    /\ rm_pc = "cleanup"
    /\ rm_i <= Len(resources)
    /\ LET h == resources[rm_i]
       IN  /\ disposed' = [disposed EXCEPT
                  ![h.id] = @ + Cardinality(MethodsCalled(h.kind))]
           /\ IF how = "ok" \/ Caught(how)
              THEN /\ rm_i' = rm_i + 1
                   /\ rm_pc' = rm_pc
                   /\ rm_scope' = [rm_scope EXCEPT !.failed =
                          IF how = "ok" THEN @ ELSE @ \cup {h.id}]
              ELSE /\ rm_i' = 0
                   /\ rm_pc' = "idle"
                   /\ rm_scope' = [rm_scope EXCEPT
                          !.failed = @ \cup {h.id},
                          !.out = "DisposalError"]
    /\ UNCHANGED <<resources, RMFrame>>

\* the loop is over: self.resources.clear(); __exit__ returns
RMCleanupEnds ==
    /\ rm_pc = "cleanup"
    /\ rm_i > Len(resources)
    /\ resources' = Cleared(resources)
    /\ rm_i' = 0
    /\ rm_pc' = "idle"
    /\ rm_scope' = [rm_scope EXCEPT
           !.out = ExitOutcome(rm_scope.body),
           !.cleanups = IF @ < MaxCleanups THEN @ + 1 ELSE @]
    /\ UNCHANGED <<disposed, RMFrame>>

InitRM ==
    /\ InitRL
    /\ min_interval = 0

NextRM ==
    \/ RMEnter
    \/ \E kind \in HandleKinds : RMAdd(kind)
    \/ \E kind \in HandleKinds : RMAddOutside(kind)
    \/ RMCleanupCall
    \/ RMBodyReturns
    \/ \E e \in BodyRaises : RMBodyRaises(e)
    \/ \E how \in DisposeOutcomes : RMDispose(how)
    \/ RMCleanupEnds

SpecRM == InitRM /\ [][NextRM]_vars

ScopeEnded == rm_pc = "idle" /\ rm_scope.out /= "none"

\* C15: when a ResourceManager scope ends, every registered handle has
\* been disposed exactly once, whether the body returned or raised, and
\* when the body raised the caller observes the body's own exception.
C15_DisposedOnce ==
    ScopeEnded =>
        /\ \A h \in 1..rm_scope.registered : disposed[h] = 1
        /\ rm_scope.body \in BodyRaises => rm_scope.out = rm_scope.body

C15_Witness ==
    /\ ScopeEnded
    /\ rm_scope.registered = MaxHandles
    /\ rm_scope.body = "Exception"
    /\ \E h \in 1..MaxHandles : disposed[h] = 1 /\ h \notin rm_scope.failed

\* C16: a disposer that fails during cleanup() is caught and discarded:
\* every other registered handle is still disposed, no disposal error
\* reaches the caller, and the outcome of the body is what the scope
\* ends with.
C16_DisposalErrorsDiscarded ==
    /\ rm_scope.out /= "DisposalError"
    /\ (ScopeEnded /\ rm_scope.failed /= {}) =>
           /\ \A h \in 1..rm_scope.registered : disposed[h] >= 1
           /\ rm_scope.out = rm_scope.body
    /\ (rm_pc = "cleanup" /\ rm_i > Len(resources)) =>
           \A k \in 1..Len(resources) : disposed[resources[k].id] >= 1

C16_Witness ==
    /\ ScopeEnded
    /\ rm_scope.body = "return"
    /\ 1 \in rm_scope.failed
    /\ rm_scope.registered >= 2
    /\ \A h \in 1..rm_scope.registered : disposed[h] >= 1


\* ------------------------------------------ CircuitBreaker, its invariants
\* C25: in sequential use, CLOSED goes with failure_count below the
\* threshold, OPEN and HALF_OPEN with failure_count at or above it, and
\* failure_count is never negative.
C25_CountMatchesState ==
    /\ failure_count >= 0
    /\ state = "CLOSED" => failure_count < failure_threshold
    /\ state \in {"OPEN", "HALF_OPEN"} => failure_count >= failure_threshold

C25_Witness ==
    /\ state = "CLOSED"
    /\ call.out = "return"
    /\ failure_count > 0
    /\ failure_count = failure_threshold - 1

\* C26 (as claimed): once a sequential call() has returned or raised,
\* however func ended, the state is CLOSED or OPEN, never HALF_OPEN.
C26_NeverLeftHalfOpen ==
    (pc = "idle" /\ call.out /= "none") => state \in {"CLOSED", "OPEN"}

\* C27 (as claimed): whatever max_retries is, a run of retry_with_backoff
\* invokes func at least once, and what the run raises was raised by func.
C27_InvokesAtLeastOnce ==
    (pc = "idle" /\ call.out \in {"return", "raise", "abort"}) =>
        /\ Invocations(trace) >= 1
        /\ call.out = "raise" => call.res.at >= 0

\* C29: last_failure_time is a recorded time whenever the state is OPEN,
\* and whenever failure_count is above 0.
C29_FailureTimeSet ==
    /\ state = "OPEN" => last_failure_time /= None
    /\ failure_count > 0 => last_failure_time /= None

C29_Witness ==
    /\ state = "OPEN"
    /\ call.preLft = None
    /\ call.out = "raise"
    /\ last_failure_time = call.tEnd


\* C24: an interrupt (KeyboardInterrupt) delivered during an attempt or
\* during a backoff sleep ends the run at once: it is what the caller
\* gets, and no attempt or sleep follows it.
C24_AbortEndsRun ==
    \A i \in DOMAIN trace :
        trace[i].how = "abort" =>
            /\ i = Len(trace)
            /\ pc = "idle"
            /\ call.out = "abort"
            /\ call.res.type \in OpAborts

C24_Witness ==
    /\ call.out = "abort"
    /\ LastEvent.ev = "interrupt"
    /\ attempt = 0
    /\ max_retries >= 2
    /\ call.tEnd < wake


\* ------------------------------------- RateLimiter, termination of a wait
\* The running caller keeps executing and the clock keeps advancing; a
\* call reaches its sleep early enough for the sleep to end within the
\* modelled time.
WaitEnterEarly ==
    /\ now + MaxInterval <= MaxTime
    /\ WaitEnter

TickEarly ==
    /\ rl_pc = "check" => now + MaxInterval < MaxTime
    /\ Tick

NextRLF ==
    \/ TickEarly
    \/ WaitEnterEarly
    \/ WaitSleep
    \/ WaitWake
    \/ WaitSkip
    \/ WaitRecord

SpecRLF ==
    /\ InitRL
    /\ [][NextRLF]_vars
    /\ WF_vars(TickEarly)
    /\ WF_vars(WaitSleep)
    /\ WF_vars(WaitWake)
    /\ WF_vars(WaitSkip)
    /\ WF_vars(WaitRecord)

\* C23: every wait_if_needed() call returns; it sleeps at most once, for
\* exactly min_interval minus the time elapsed since last_request_time,
\* and not at all when at least min_interval has elapsed; after the sleep
\* it only records the time and returns.
C23_WaitTerminates ==
    /\ [][(rl_pc' = "sleep" /\ rl_pc /= "sleep") =>
              /\ rl_pc = "check"
              /\ rl_wake' - now =
                     min_interval - (current_time - last_request_time)]_vars
    /\ [][(rl_pc = "check" /\ rl_pc' = "record") =>
              current_time - last_request_time >= min_interval]_vars
    /\ [][rl_pc = "sleep" => rl_pc' \in {"sleep", "record"}]_vars
    /\ [][rl_pc = "record" => rl_pc' \in {"record", "idle"}]_vars
    /\ (rl_pc /= "idle") ~> (rl_pc = "idle")

C23_Witness ==
    /\ rl_pc = "record"
    /\ rl_recorded
    /\ rl_wake = now
    /\ rl_wake > current_time
    /\ rl_wake - current_time < min_interval


\* C30: cleanup() is idempotent: when it has returned the list is empty,
\* no handle is ever disposed a second time by a later cleanup() or scope,
\* and a handle registered after a cleanup stays undisposed until the next
\* cleanup, which disposes it once.
C30_CleanupIdempotent ==
    /\ \A h \in 1..MaxHandles : disposed[h] <= 1
    /\ (rm_pc = "idle" /\ rm_scope.out /= "none") => resources = <<>>
    /\ rm_pc /= "cleanup" =>
           /\ \A k \in DOMAIN resources : disposed[resources[k].id] = 0
           /\ \A h \in 1..rm_scope.registered :
                  disposed[h] = 0 => \E k \in DOMAIN resources :
                                         resources[k].id = h

C30_Witness ==
    /\ rm_pc = "idle"
    /\ rm_scope.out = "call"
    /\ rm_scope.cleanups >= 2
    /\ rm_scope.registered = MaxHandles
    /\ resources = <<>>
    /\ \A h \in 1..MaxHandles : disposed[h] = 1


\* C21 (as claimed): while the state is HALF_OPEN and a call is executing
\* func as the probe, no other call is admitted to func.
C21_SingleProbe ==
    [][\A t \in Threads :
          (c_pc[t] = "idle" /\ c_pc'[t] = "func") =>
              ~(/\ state = "HALF_OPEN"
                /\ \E u \in Threads \ {t} : c_pc[u] = "func")]_vars


\* ------------------------------------------------ timeout_context, nested
\* with timeout_context(seconds): ... with timeout_context(in_seconds): ...
\* The process has one alarm: signal.alarm replaces the pending one, and
\* signal.alarm(0) cancels it.  Each call of timeout_context defines its
\* own timeout_handler.  An exception leaving the inner scope is raised in
\* the outer body, which may handle it and go on, or let it through.
TCNFrame ==
    <<now, seconds, old_handler, tc_pc, scope, in_seconds, reqVars, cbVars,
      rhVars, pc, obsVars, rlVars, rlcVars, cbcVars, rmVars>>

\* the inner call: old_handler = signal.signal(..); signal.alarm(seconds)
InnerEnter ==
    /\ tc_pc = "body"
    /\ in_pc = "idle"
    /\ ~Due(alarm_at, now)
    /\ in_old_handler' = sig_handler
    /\ sig_handler' = "timeout_handler_inner"
    /\ alarm_at' = AlarmAt(now, in_seconds)
    /\ in_pc' = "body"
    /\ in_scope' = [before |-> sig_handler, entered |-> now,
                    out |-> "running", tEnd |-> None]
    /\ UNCHANGED TCNFrame

\* the finally block of the inner call
InnerExit(out) ==
    /\ alarm_at' = AlarmOnExit(alarm_at)
    /\ sig_handler' = HandlerOnExit(in_old_handler, sig_handler)
    /\ in_pc' = "idle"
    /\ in_scope' = [in_scope EXCEPT !.out = out, !.tEnd = now]
    /\ UNCHANGED <<in_old_handler, TCNFrame>>

InnerBodyReturns ==
    /\ in_pc = "body"
    /\ ~Due(alarm_at, now)
    /\ InnerExit("return")

InnerBodyRaises ==
    /\ in_pc = "body"
    /\ ~Due(alarm_at, now)
    /\ InnerExit("raise")

InnerTimeout ==
    /\ in_pc = "body"
    /\ Due(alarm_at, now)
    /\ sig_handler = "timeout_handler_inner"
    /\ InnerExit("TimeoutError")

\* the outer body ends, or is timed out, while no inner scope is open
OuterBodyReturns ==
    /\ in_pc = "idle"
    /\ TCBodyReturns

OuterBodyRaises ==
    /\ in_pc = "idle"
    /\ TCBodyRaises

OuterTimeout ==
    /\ in_pc = "idle"
    /\ TCTimeout

InitTCN ==
    /\ now = 0
    /\ CBIdle
    /\ min_interval = 0
    /\ RLIdle
    /\ RLCIdle
    /\ CBCIdle
    /\ RMIdle
    /\ ReqIdle
    /\ seconds \in 1..MaxSeconds
    /\ alarm_at = None
    /\ sig_handler \in Handlers
    /\ old_handler = "SIG_DFL"
    /\ tc_pc = "idle"
    /\ scope = NoScope
    /\ in_seconds \in 1..MaxSeconds
    /\ in_old_handler = "SIG_DFL"
    /\ in_pc = "idle"
    /\ in_scope = NoScope

NextTCN ==
    \/ TickT
    \/ TCEnter
    \/ InnerEnter
    \/ InnerBodyReturns
    \/ InnerBodyRaises
    \/ InnerTimeout
    \/ OuterBodyReturns
    \/ OuterBodyRaises
    \/ OuterTimeout

SpecTCN == InitTCN /\ [][NextTCN]_vars

\* C28 (as claimed): with an inner timeout_context opened inside the body
\* of an outer one, the outer body never runs past the outer deadline: it
\* is aborted with TimeoutError at that deadline.
C28_OuterDeadlineKept ==
    (/\ tc_pc = "body"
     /\ in_scope.entered /= None
     /\ in_scope.entered >= scope.entered) => now <= Deadline


\* ------------------------------------------------- invoke_model, one request
\* self.rate_limiter.wait_if_needed(), then
\* self.circuit_breaker.call(self.retry_handler.retry_with_backoff, _invoke)
\* where _invoke is: with timeout_context(timeout): self.client.converse(..).
\* req_log lists what the layers did, each entry with the time it happened.
Ev(e, n, t) == [ev |-> e, n |-> n, t |-> t]

ReqFrame ==
    <<failure_threshold, recovery_timeout, max_retries, backoff, pc, obsVars,
      min_interval, rl_pc, prev_request_time, rl_recorded, rlcVars, cbcVars,
      seconds, tc_pc, scope, rmVars, tcnVars>>

\* wait_if_needed: current_time = time.time()
ReqStart ==
    /\ req_pc \in {"idle", "done"}
    /\ current_time' = now
    /\ req_pc' = "limit"
    /\ req_log' = <<>>
    /\ UNCHANGED <<now, failure_count, last_failure_time, state, attempt,
                   last_exception, wake, last_request_time, rl_wake, alarm_at,
                   sig_handler, old_handler, ReqFrame>>

\* time_since_last < min_interval: time.sleep starts
ReqLimitSleep ==
    /\ req_pc = "limit"
    /\ NeedsWait(TimeSinceLast(current_time, last_request_time), min_interval)
    /\ rl_wake' = now + WaitTime(TimeSinceLast(current_time, last_request_time),
                                 min_interval)
    /\ req_pc' = "limit_sleep"
    /\ UNCHANGED <<now, failure_count, last_failure_time, state, attempt,
                   last_exception, wake, last_request_time, current_time,
                   alarm_at, sig_handler, old_handler, req_log, ReqFrame>>

\* time.sleep returns, or there was nothing to wait for
ReqLimitPassed ==
    /\ \/ req_pc = "limit_sleep" /\ now >= rl_wake
       \/ /\ req_pc = "limit"
          /\ ~NeedsWait(TimeSinceLast(current_time, last_request_time),
                        min_interval)
    /\ req_pc' = "limit_record"
    /\ UNCHANGED <<now, failure_count, last_failure_time, state, attempt,
                   last_exception, wake, last_request_time, current_time,
                   rl_wake, alarm_at, sig_handler, old_handler, req_log,
                   ReqFrame>>

\* self.last_request_time = time.time(); wait_if_needed returns
ReqLimitRecord ==
    /\ req_pc = "limit_record"
    /\ last_request_time' = now
    /\ req_pc' = "gate"
    /\ req_log' = Append(req_log, Ev("limiter", 0, now))
    /\ UNCHANGED <<now, failure_count, last_failure_time, state, attempt,
                   last_exception, wake, current_time, rl_wake, alarm_at,
                   sig_handler, old_handler, ReqFrame>>

\* circuit_breaker.call: the breaker is OPEN within its timeout
ReqReject ==
    /\ req_pc = "gate"
    /\ Rejects(state, now, last_failure_time, recovery_timeout)
    /\ req_pc' = "done"
    /\ req_log' = req_log \o <<Ev("breaker", 0, now), Ev("rejected", 0, now)>>
    /\ UNCHANGED <<now, failure_count, last_failure_time, state, attempt,
                   last_exception, wake, last_request_time, current_time,
                   rl_wake, alarm_at, sig_handler, old_handler, ReqFrame>>

\* circuit_breaker.call invokes retry_with_backoff(_invoke)
ReqAdmit ==
    /\ req_pc = "gate"
    /\ ~Rejects(state, now, last_failure_time, recovery_timeout)
    /\ state' = StateOnEntry(state, now, last_failure_time, recovery_timeout)
    /\ attempt' = 0
    /\ last_exception' = NoException
    /\ req_pc' = "loop"
    /\ req_log' = req_log \o <<Ev("breaker", 0, now), Ev("retry", 0, now)>>
    /\ UNCHANGED <<now, failure_count, last_failure_time, wake,
                   last_request_time, current_time, rl_wake, alarm_at,
                   sig_handler, old_handler, ReqFrame>>

\* an attempt: _invoke enters timeout_context and starts the remote call
ReqAttemptStart ==
    /\ req_pc = "loop"
    /\ InRange(attempt, max_retries)
    /\ old_handler' = sig_handler
    /\ sig_handler' = "timeout_handler"
    /\ alarm_at' = AlarmAt(now, seconds)
    /\ req_pc' = "remote"
    /\ req_log' = req_log \o <<Ev("armed", alarm_at', now),
                               Ev("remote", attempt, now)>>
    /\ UNCHANGED <<now, failure_count, last_failure_time, state, attempt,
                   last_exception, wake, last_request_time, current_time,
                   rl_wake, ReqFrame>>


\* the clock, while no alarm is due
TickReq ==
    /\ now < MaxReqTime
    /\ TickT

\* what can end the remote call now: the alarm of the scope when it is due
\* (timeout_handler raises TimeoutError), otherwise the call itself
PossibleNow(kind) ==
    IF kind = "TimeoutError"
    THEN Due(alarm_at, now) /\ sig_handler = "timeout_handler"
    ELSE ~Due(alarm_at, now)

\* the finally block of timeout_context
ScopeLeft ==
    /\ alarm_at' = AlarmOnExit(alarm_at)
    /\ sig_handler' = HandlerOnExit(old_handler, sig_handler)
    /\ UNCHANGED old_handler

\* the remote call returns: retry_with_backoff and call() return it
ReqAttemptReturns ==
    /\ req_pc = "remote"
    /\ PossibleNow("value")
    /\ ScopeLeft
    /\ state' = StateOnSuccess(state)
    /\ failure_count' = CountOnSuccess(state, failure_count)
    /\ req_pc' = "done"
    /\ req_log' = Append(req_log, Ev("return", attempt, now))
    /\ UNCHANGED <<now, last_failure_time, attempt, last_exception, wake,
                   last_request_time, current_time, rl_wake, ReqFrame>>

\* the attempt raises an Exception and a retry is left: backoff sleep
ReqAttemptFailsRetry ==
    /\ req_pc = "remote"
    /\ MoreRetries(attempt, max_retries)
    /\ \E kind \in OpErrors \cup OpAborts :
        /\ PossibleNow(kind)
        /\ Retried(kind)
        /\ last_exception' = LastException(last_exception, Obj(kind, attempt))
        /\ req_log' = req_log \o
               <<Ev(kind, attempt, now),
                 Ev("sleep", BackoffWait(backoff, attempt), now)>>
    /\ ScopeLeft
    /\ wake' = now + BackoffWait(backoff, attempt)
    /\ req_pc' = "backoff"
    /\ UNCHANGED <<now, failure_count, last_failure_time, state, attempt,
                   last_request_time, current_time, rl_wake, ReqFrame>>

\* time.sleep(wait_time) returns: next attempt
ReqBackoffEnds ==
    /\ req_pc = "backoff"
    /\ now >= wake
    /\ attempt' = attempt + 1
    /\ req_pc' = "loop"
    /\ UNCHANGED <<now, failure_count, last_failure_time, state,
                   last_exception, wake, last_request_time, current_time,
                   rl_wake, alarm_at, sig_handler, old_handler, req_log,
                   ReqFrame>>

\* the last attempt raises an Exception: retry_with_backoff raises it and
\* call() counts one failure
ReqAttemptFailsLast ==
    /\ req_pc = "remote"
    /\ ~MoreRetries(attempt, max_retries)
    /\ \E kind \in OpErrors \cup OpAborts :
        /\ PossibleNow(kind)
        /\ Retried(kind)
        /\ last_exception' = LastException(last_exception, Obj(kind, attempt))
        /\ req_log' = Append(req_log, Ev(kind, attempt, now))
    /\ ScopeLeft
    /\ failure_count' = CountOnFailure(failure_count)
    /\ last_failure_time' = TimeOnFailure(now, last_failure_time)
    /\ state' = StateOnFailure(state, failure_count', failure_threshold)
    /\ req_pc' = "done"
    /\ UNCHANGED <<now, attempt, wake, last_request_time, current_time,
                   rl_wake, ReqFrame>>

\* the attempt raises a BaseException that no layer catches
ReqAttemptAborts ==
    /\ req_pc = "remote"
    /\ \E kind \in OpErrors \cup OpAborts :
        /\ PossibleNow(kind)
        /\ ~Retried(kind)
        /\ req_log' = Append(req_log, Ev(kind, attempt, now))
    /\ ScopeLeft
    /\ req_pc' = "done"
    /\ UNCHANGED <<now, failure_count, last_failure_time, state, attempt,
                   last_exception, wake, last_request_time, current_time,
                   rl_wake, ReqFrame>>

\* one client object: RateLimiter, RetryHandler, CircuitBreaker as
\* constructed, the timeout of its configuration
InitReq ==
    /\ now = 0
    /\ failure_threshold = 1
    /\ recovery_timeout = 1
    /\ failure_count = 0
    /\ last_failure_time = None
    /\ state = "CLOSED"
    /\ max_retries \in 0..MaxRetries
    /\ backoff \in 1..MaxBackoff
    /\ attempt = 0
    /\ last_exception = NoException
    /\ wake = 0
    /\ pc = "idle"
    /\ call = NoCall
    /\ trace = <<>>
    /\ failRun = 0
    /\ rawAttempts = 0
    /\ lastOp = NoException
    /\ min_interval \in 0..MaxInterval
    /\ RLIdle
    /\ RLCIdle
    /\ CBCIdle
    /\ RMIdle
    /\ TCNIdle
    /\ ReqIdle
    /\ seconds \in 1..MaxSeconds
    /\ alarm_at = None
    /\ sig_handler = "SIG_DFL"
    /\ old_handler = "SIG_DFL"
    /\ tc_pc = "idle"
    /\ scope = NoScope

NextReq ==
    \/ TickReq
    \/ ReqStart
    \/ ReqLimitSleep
    \/ ReqLimitPassed
    \/ ReqLimitRecord
    \/ ReqReject
    \/ ReqAdmit
    \/ ReqAttemptStart
    \/ ReqAttemptReturns
    \/ ReqAttemptFailsRetry
    \/ ReqBackoffEnds
    \/ ReqAttemptFailsLast
    \/ ReqAttemptAborts

SpecReq == InitReq /\ [][NextReq]_vars


LimiterPending == req_pc \in {"idle", "limit", "limit_sleep", "limit_record"}

\* C22: for one request the layers run in the order rate limiter, circuit
\* breaker, retry, timeout, remote call: wait_if_needed completes once and
\* first, then the breaker starts and calls retry_with_backoff once; each
\* remote call is made with the alarm freshly armed for the full timeout,
\* no alarm is pending outside an attempt, and an attempt that timed out
\* is followed by a backoff sleep and another attempt while retries are
\* left.
C22_LayerOrder ==
    /\ LimiterPending <=> req_log = <<>>
    /\ \A i \in DOMAIN req_log :
        /\ req_log[i].ev = "limiter" <=> i = 1
        /\ req_log[i].ev = "breaker" <=> i = 2
        /\ req_log[i].ev \in {"retry", "rejected"} <=> i = 3
        /\ req_log[i].ev = "rejected" => Len(req_log) = 3
        /\ req_log[i].ev = "armed" <=>
               (i < Len(req_log) /\ req_log[i + 1].ev = "remote")
        /\ req_log[i].ev = "armed" =>
               /\ req_log[i].n = req_log[i].t + seconds
               /\ req_log[i + 1].t = req_log[i].t
        /\ req_log[i].ev = "TimeoutError" =>
               /\ req_log[i - 1].ev = "remote"
               /\ req_log[i].t = req_log[i - 1].t + seconds
               /\ req_log[i].n < max_retries =>
                      /\ i < Len(req_log)
                      /\ req_log[i + 1].ev = "sleep"
    /\ req_pc = "remote" <=> alarm_at /= None
    /\ req_pc = "remote" =>
           /\ alarm_at = req_log[Len(req_log)].t + seconds
           /\ sig_handler = "timeout_handler"
           /\ now <= alarm_at
    /\ req_pc = "backoff" => req_log[Len(req_log)].ev = "sleep"

C22_Witness ==
    /\ req_pc = "remote"
    /\ attempt = 1
    /\ seconds = MaxSeconds
    /\ alarm_at = now + seconds
    /\ req_log[1].t > 0
    /\ \E i \in DOMAIN req_log : req_log[i].ev = "TimeoutError"

====
